---- MODULE Spec2Model ----
(***************************************************************************)
(* Model of maciekzieba/crawler (main.go): the recursive, concurrent Crawl *)
(* with its sync.WaitGroup, the unbuffered output channel drained by the   *)
(* consumer goroutine of main, and CacheFetcher, the mutex-guarded         *)
(* memoizing wrapper around the underlying Fetcher.                        *)
(*                                                                         *)
(* A Crawl goroutine is identified by its path in the spawn tree: <<>> is  *)
(* the root started by main, Append(t, i) is the goroutine started by t    *)
(* for the i-th entry of the urls it fetched.                              *)
(***************************************************************************)
EXTENDS Integers, Sequences, FiniteSets, TLC

\* Largest depth main passes to the root Crawl (main.go passes 4).
MaxDepth == 3
\* Largest spawn tree explored: a run whose Crawl goroutines would number
\* more than MaxTasks is left out.
MaxTasks == 6

Urls == {"A", "B", "C"}

\* The error value nil, and the error fakeFetcher.Fetch builds (main.go:65).
NoErr == <<>>
NotFound(url) == <<"not found: ", url>>

fakeResult(body, urls) == [body |-> body, urls |-> urls]

\* Populated fakeFetcher maps (main.go:69 populates one such map). A url
\* that is no key of the map is not found.
FixtureGraph ==
    ("A" :> fakeResult("body A", <<"B", "C">>)) @@
    ("B" :> fakeResult("body B", <<"A", "C">>)) @@
    ("C" :> fakeResult("body C", <<"A">>))
CycleGraph ==
    ("A" :> fakeResult("body A", <<"B">>)) @@
    ("B" :> fakeResult("body B", <<"A">>))
LoopGraph ==
    ("A" :> fakeResult("body A", <<"A">>))
TwinGraph ==
    ("A" :> fakeResult("body A", <<"B", "B">>)) @@
    ("B" :> fakeResult("body B", <<>>))
DiamondGraph ==
    ("A" :> fakeResult("body A", <<"B", "C">>)) @@
    ("B" :> fakeResult("body B", <<"C">>)) @@
    ("C" :> fakeResult("body C", <<>>))
BrokenGraph ==
    ("A" :> fakeResult("body A", <<"C", "B">>)) @@
    ("B" :> fakeResult("body B", <<"C">>))
Fetchers ==
    {FixtureGraph, CycleGraph, LoopGraph, TwinGraph, DiamondGraph, BrokenGraph}

Depths == (0 - 1) .. MaxDepth

VARIABLES
    fetcher,      \* the underlying fakeFetcher map
    startUrl,     \* url main passes to the root Crawl
    startDepth,   \* depth main passes to the root Crawl
    tasks,        \* Crawl goroutines: path -> locals and position
    wg,           \* the sync.WaitGroup counter
    items,        \* CacheFetcher.items
    mux,          \* CacheFetcher.mux: the set of goroutines holding it
    consumerPc,   \* the consumer goroutine: "recv" or "print"
    message,      \* the consumer's local message (a sequence of <= 1 entry)
    stdout,       \* lines written by fmt.Printf, in order
    mainPc,       \* main: "wait" (in wg.Wait) or "exited"
    delivered,    \* history: entries sent on output, in channel order
    underCalls,   \* history: calls of the underlying Fetch, per url
    fetchCalls,   \* history: calls of CacheFetcher.Fetch, per url
    cacheWrites,  \* history: assignments to items[url], per url
    returnedOk    \* history: urls for which CacheFetcher.Fetch returned nil error

vars == <<fetcher, startUrl, startDepth, tasks, wg, items, mux, consumerPc,
          message, stdout, mainPc, delivered, underCalls, fetchCalls,
          cacheWrites, returnedOk>>

config == <<fetcher, startUrl, startDepth>>
cacheVars == <<items, mux>>
consumerVars == <<consumerPc, message>>
fetchHistory == <<underCalls, fetchCalls, cacheWrites, returnedOk>>

Root == <<>>

\* fakeFetcher.Fetch (main.go:61-66)
fakeFetch(f, url) ==
    IF url \in DOMAIN f
    THEN [body |-> f[url].body, urls |-> f[url].urls, err |-> NoErr]
    ELSE [body |-> "", urls |-> <<>>, err |-> NotFound(url)]

\* A goroutine created by `go Crawl(wg, url, depth, fetcher, output)`.
NewTask(url, depth) ==
    [url |-> url, depth |-> depth, pc |-> "start",
     body |-> "", urls |-> <<>>, err |-> NoErr, i |-> 1,
     hit |-> FALSE, late |-> FALSE]

\* fmt.Sprintf("found: %s %q", url, body) and err.Error()
FoundMessage(url, body) == <<"found: ", url, body>>
ErrorMessage(err) == err

Running == mainPc = "wait"

\* Sum of g[1] .. g[n]
RECURSIVE SumTo(_, _)
SumTo(g, n) == IF n = 0 THEN 0 ELSE g[n] + SumTo(g, n - 1)

\* Number of Crawl goroutines of a whole run started by
\* `go Crawl(wg, url, depth, ...)`: the goroutine itself and, when it has
\* depth > 0 and its fetch succeeds, one subtree per entry of urls.
RECURSIVE TreeSize(_, _, _)
TreeSize(f, url, depth) ==
    IF depth <= 0 \/ url \notin DOMAIN f
    THEN 1
    ELSE 1 + SumTo([k \in 1 .. Len(f[url].urls) |->
                      TreeSize(f, f[url].urls[k], depth - 1)],
                   Len(f[url].urls))

Init ==
    /\ fetcher \in Fetchers
    /\ startUrl \in Urls
    /\ startDepth \in Depths
    /\ TreeSize(fetcher, startUrl, startDepth) <= MaxTasks
    /\ tasks = (Root :> NewTask(startUrl, startDepth))
    /\ wg = 1
    /\ items = [u \in {} |-> fakeResult("", <<>>)]
    /\ mux = {}
    /\ consumerPc = "recv"
    /\ message = <<>>
    /\ stdout = <<>>
    /\ mainPc = "wait"
    /\ delivered = <<>>
    /\ underCalls = [u \in Urls |-> 0]
    /\ fetchCalls = [u \in Urls |-> 0]
    /\ cacheWrites = [u \in Urls |-> 0]
    /\ returnedOk = {}

Set(t, fields) == [tasks EXCEPT ![t] = fields @@ tasks[t]]

\* Crawl entry without the deferred Done on the early return.
CrawlEnter_NoDone(t) ==
    /\ Running
    /\ tasks[t].pc = "start"
    /\ IF tasks[t].depth <= 0
       THEN /\ tasks' = Set(t, [pc |-> "done"])
            /\ UNCHANGED fetchCalls
       ELSE /\ tasks' = Set(t, [pc |-> "lock1",
                                late |-> tasks[t].url \in returnedOk])
            /\ fetchCalls' = [fetchCalls EXCEPT ![tasks[t].url] = @ + 1]
    /\ UNCHANGED <<config, wg, cacheVars, consumerVars, stdout, mainPc,
                   delivered, underCalls, cacheWrites, returnedOk>>

\* Crawl entry with the depth test written `depth < 0`.
CrawlEnter_OffByOne(t) ==
    /\ Running
    /\ tasks[t].pc = "start"
    /\ IF tasks[t].depth < 0
       THEN /\ tasks' = Set(t, [pc |-> "done"])
            /\ wg' = wg - 1
            /\ UNCHANGED fetchCalls
       ELSE /\ tasks' = Set(t, [pc |-> "lock1",
                                late |-> tasks[t].url \in returnedOk])
            /\ fetchCalls' = [fetchCalls EXCEPT ![tasks[t].url] = @ + 1]
            /\ UNCHANGED wg
    /\ UNCHANGED <<config, cacheVars, consumerVars, stdout, mainPc, delivered,
                   underCalls, cacheWrites, returnedOk>>

\* Crawl entry (main.go:17-23): defer wg.Done(); a depth <= 0 returns at
\* once, which runs the deferred Done; otherwise CacheFetcher.Fetch is called.
CrawlEnter(t) ==
    /\ Running
    /\ tasks[t].pc = "start"
    /\ IF tasks[t].depth <= 0
       THEN /\ tasks' = Set(t, [pc |-> "done"])
            /\ wg' = wg - 1
            /\ UNCHANGED fetchCalls
       ELSE /\ tasks' = Set(t, [pc |-> "lock1",
                                late |-> tasks[t].url \in returnedOk])
            /\ fetchCalls' = [fetchCalls EXCEPT ![tasks[t].url] = @ + 1]
            /\ UNCHANGED wg
    /\ UNCHANGED <<config, cacheVars, consumerVars, stdout, mainPc, delivered,
                   underCalls, cacheWrites, returnedOk>>

\* f.mux.Lock() (main.go:114)
FetchLock(t) ==
    /\ Running
    /\ tasks[t].pc = "lock1"
    /\ mux = {}
    /\ mux' = {t}
    /\ tasks' = Set(t, [pc |-> "lookup"])
    /\ UNCHANGED <<config, wg, items, consumerVars, stdout, mainPc, delivered,
                   fetchHistory>>

\* The lookup returning the cached body without the cached urls on a hit.
FetchLookup_BodyOnly(t) ==
    /\ Running
    /\ tasks[t].pc = "lookup"
    /\ mux = {t}
    /\ mux' = {}
    /\ LET url == tasks[t].url IN
       IF url \in DOMAIN items
       THEN /\ stdout' = Append(stdout, <<"hit from cache: ", url, items[url].body>>)
            /\ tasks' = Set(t, [pc |-> "fetched", body |-> items[url].body,
                                urls |-> <<>>, err |-> NoErr, hit |-> TRUE])
            /\ returnedOk' = returnedOk \cup {url}
       ELSE /\ tasks' = Set(t, [pc |-> "under"])
            /\ UNCHANGED <<stdout, returnedOk>>
    /\ UNCHANGED <<config, wg, items, consumerVars, mainPc, delivered,
                   underCalls, fetchCalls, cacheWrites>>

\* The lookup releasing the mutex on a hit only (on a miss the Unlock is
\* left to the end of Fetch).
FetchLookup_HoldLock(t) ==
    /\ Running
    /\ tasks[t].pc = "lookup"
    /\ mux = {t}
    /\ LET url == tasks[t].url IN
       IF url \in DOMAIN items
       THEN /\ mux' = {}
            /\ stdout' = Append(stdout, <<"hit from cache: ", url, items[url].body>>)
            /\ tasks' = Set(t, [pc |-> "fetched", body |-> items[url].body,
                                urls |-> items[url].urls, err |-> NoErr,
                                hit |-> TRUE])
            /\ returnedOk' = returnedOk \cup {url}
       ELSE /\ tasks' = Set(t, [pc |-> "under"])
            /\ UNCHANGED <<mux, stdout, returnedOk>>
    /\ UNCHANGED <<config, wg, items, consumerVars, mainPc, delivered,
                   underCalls, fetchCalls, cacheWrites>>

\* item, cacheExists := f.items[url]; f.mux.Unlock(); on a hit the Printf
\* and the return of the cached item (main.go:115-119)
FetchLookup(t) ==
    /\ Running
    /\ tasks[t].pc = "lookup"
    /\ mux = {t}
    /\ mux' = {}
    /\ LET url == tasks[t].url IN
       IF url \in DOMAIN items
       THEN /\ stdout' = Append(stdout, <<"hit from cache: ", url, items[url].body>>)
            /\ tasks' = Set(t, [pc |-> "fetched", body |-> items[url].body,
                                urls |-> items[url].urls, err |-> NoErr,
                                hit |-> TRUE])
            /\ returnedOk' = returnedOk \cup {url}
       ELSE /\ tasks' = Set(t, [pc |-> "under"])
            /\ UNCHANGED <<stdout, returnedOk>>
    /\ UNCHANGED <<config, wg, items, consumerVars, mainPc, delivered,
                   underCalls, fetchCalls, cacheWrites>>

\* The underlying call followed by the insert whatever err is.
FetchUnderlying_CacheFailure(t) ==
    /\ Running
    /\ tasks[t].pc = "under"
    /\ LET url == tasks[t].url
           res == fakeFetch(fetcher, url) IN
       /\ underCalls' = [underCalls EXCEPT ![url] = @ + 1]
       /\ tasks' = Set(t, [pc |-> "lock2",
                           body |-> res.body, urls |-> res.urls, err |-> res.err])
    /\ UNCHANGED <<config, wg, cacheVars, consumerVars, stdout, mainPc,
                   delivered, fetchCalls, cacheWrites, returnedOk>>

\* The underlying call followed by a prefetch of the first url it returned.
FetchUnderlying_Prefetch(t) ==
    /\ Running
    /\ tasks[t].pc = "under"
    /\ LET url == tasks[t].url
           res == fakeFetch(fetcher, url)
           called == [underCalls EXCEPT ![url] = @ + 1] IN
       /\ underCalls' = IF Len(res.urls) >= 1
                        THEN [called EXCEPT ![res.urls[1]] = @ + 1]
                        ELSE called
       /\ tasks' = Set(t, [pc |-> IF res.err = NoErr THEN "lock2" ELSE "fetched",
                           body |-> res.body, urls |-> res.urls, err |-> res.err])
    /\ UNCHANGED <<config, wg, cacheVars, consumerVars, stdout, mainPc,
                   delivered, fetchCalls, cacheWrites, returnedOk>>

\* body, urls, err := f.fetcher.Fetch(url) (main.go:121); a failure is
\* returned without caching (main.go:122, 127)
FetchUnderlying(t) ==
    /\ Running
    /\ tasks[t].pc = "under"
    /\ LET url == tasks[t].url
           res == fakeFetch(fetcher, url) IN
       /\ underCalls' = [underCalls EXCEPT ![url] = @ + 1]
       /\ tasks' = Set(t, [pc |-> IF res.err = NoErr THEN "lock2" ELSE "fetched",
                           body |-> res.body, urls |-> res.urls, err |-> res.err])
    /\ UNCHANGED <<config, wg, cacheVars, consumerVars, stdout, mainPc,
                   delivered, fetchCalls, cacheWrites, returnedOk>>

\* f.mux.Lock() (main.go:123)
FetchLockStore(t) ==
    /\ Running
    /\ tasks[t].pc = "lock2"
    /\ mux = {}
    /\ mux' = {t}
    /\ tasks' = Set(t, [pc |-> "store"])
    /\ UNCHANGED <<config, wg, items, consumerVars, stdout, mainPc, delivered,
                   fetchHistory>>

\* The store step caching the body without the urls.
FetchStore_DropUrls(t) ==
    /\ Running
    /\ tasks[t].pc = "store"
    /\ mux = {t}
    /\ mux' = {}
    /\ LET url == tasks[t].url IN
       /\ items' = (url :> fakeResult(tasks[t].body, <<>>)) @@ items
       /\ cacheWrites' = [cacheWrites EXCEPT ![url] = @ + 1]
       /\ returnedOk' = returnedOk \cup {url}
    /\ tasks' = Set(t, [pc |-> "fetched"])
    /\ UNCHANGED <<config, wg, consumerVars, stdout, mainPc, delivered,
                   underCalls, fetchCalls>>

\* The store step with the assignment to f.items left out.
FetchStore_NoInsert(t) ==
    /\ Running
    /\ tasks[t].pc = "store"
    /\ mux = {t}
    /\ mux' = {}
    /\ returnedOk' = returnedOk \cup {tasks[t].url}
    /\ tasks' = Set(t, [pc |-> "fetched"])
    /\ UNCHANGED <<config, wg, items, consumerVars, stdout, mainPc, delivered,
                   underCalls, fetchCalls, cacheWrites>>

\* f.items[url] = CacheItem{body, urls}; f.mux.Unlock(); return (main.go:124-127)
FetchStore(t) ==
    /\ Running
    /\ tasks[t].pc = "store"
    /\ mux = {t}
    /\ mux' = {}
    /\ LET url == tasks[t].url IN
       /\ items' = (url :> fakeResult(tasks[t].body, tasks[t].urls)) @@ items
       /\ cacheWrites' = [cacheWrites EXCEPT ![url] = @ + 1]
       /\ returnedOk' = returnedOk \cup {url}
    /\ tasks' = Set(t, [pc |-> "fetched"])
    /\ UNCHANGED <<config, wg, consumerVars, stdout, mainPc, delivered,
                   underCalls, fetchCalls>>

\* A send that does not wait for the consumer's receive.
Send_NoRendezvous(t, text) ==
    /\ consumerPc' = "print"
    /\ message' = <<text>>
    /\ delivered' = Append(delivered, [from |-> t, text |-> text])

\* A send on the unbuffered channel (main.go:38) completes together with
\* the consumer's receive (main.go:45).
Send(t, text) ==
    /\ consumerPc = "recv"
    /\ consumerPc' = "print"
    /\ message' = <<text>>
    /\ delivered' = Append(delivered, [from |-> t, text |-> text])

\* The error branch ending the process after the send (a fatal error).
CrawlSendError_Fatal(t) ==
    /\ Running
    /\ tasks[t].pc = "fetched"
    /\ tasks[t].err # NoErr
    /\ Send(t, ErrorMessage(tasks[t].err))
    /\ tasks' = Set(t, [pc |-> "ret"])
    /\ mainPc' = "exited"
    /\ UNCHANGED <<config, wg, cacheVars, stdout, fetchHistory>>

\* if err != nil { output <- err.Error(); return } (main.go:24-27)
CrawlSendError(t) ==
    /\ Running
    /\ tasks[t].pc = "fetched"
    /\ tasks[t].err # NoErr
    /\ Send(t, ErrorMessage(tasks[t].err))
    /\ tasks' = Set(t, [pc |-> "ret"])
    /\ UNCHANGED <<config, wg, cacheVars, stdout, mainPc, fetchHistory>>

\* The success branch entering the loop without having sent the message.
CrawlSendFound_SpawnFirst(t) ==
    /\ Running
    /\ tasks[t].pc = "fetched"
    /\ tasks[t].err = NoErr
    /\ IF Len(tasks[t].urls) >= 1
       THEN /\ tasks' = Set(t, [pc |-> "add", i |-> 1])
            /\ UNCHANGED <<consumerVars, delivered>>
       ELSE /\ Send(t, FoundMessage(tasks[t].url, tasks[t].body))
            /\ tasks' = Set(t, [pc |-> "ret", i |-> 1])
    /\ UNCHANGED <<config, wg, cacheVars, stdout, mainPc, fetchHistory>>

\* output <- fmt.Sprintf("found: %s %q", url, body), then the loop head
\* (main.go:29-30)
CrawlSendFound(t) ==
    /\ Running
    /\ tasks[t].pc = "fetched"
    /\ tasks[t].err = NoErr
    /\ Send(t, FoundMessage(tasks[t].url, tasks[t].body))
    /\ tasks' = Set(t, [pc |-> IF Len(tasks[t].urls) >= 1 THEN "add" ELSE "ret",
                        i |-> 1])
    /\ UNCHANGED <<config, wg, cacheVars, stdout, mainPc, fetchHistory>>

\* The loop body without wg.Add(1).
CrawlAdd_NoRegister(t) ==
    /\ Running
    /\ tasks[t].pc = "add"
    /\ tasks' = Set(t, [pc |-> "go"])
    /\ UNCHANGED <<config, wg, cacheVars, consumerVars, stdout, mainPc,
                   delivered, fetchHistory>>

\* wg.Add(1) (main.go:31)
CrawlAdd(t) ==
    /\ Running
    /\ tasks[t].pc = "add"
    /\ wg' = wg + 1
    /\ tasks' = Set(t, [pc |-> "go"])
    /\ UNCHANGED <<config, cacheVars, consumerVars, stdout, mainPc, delivered,
                   fetchHistory>>

\* The go statement passing depth instead of depth-1.
CrawlGo_SameDepth(t) ==
    /\ Running
    /\ tasks[t].pc = "go"
    /\ LET i == tasks[t].i
           child == Append(t, i) IN
       tasks' = (child :> NewTask(tasks[t].urls[i], tasks[t].depth)) @@
                Set(t, [pc |-> IF i < Len(tasks[t].urls) THEN "add" ELSE "ret",
                        i |-> i + 1])
    /\ UNCHANGED <<config, wg, cacheVars, consumerVars, stdout, mainPc,
                   delivered, fetchHistory>>

\* The go statement passing the first url of the list on every iteration.
CrawlGo_FirstUrl(t) ==
    /\ Running
    /\ tasks[t].pc = "go"
    /\ LET i == tasks[t].i
           child == Append(t, i) IN
       tasks' = (child :> NewTask(tasks[t].urls[1], tasks[t].depth - 1)) @@
                Set(t, [pc |-> IF i < Len(tasks[t].urls) THEN "add" ELSE "ret",
                        i |-> i + 1])
    /\ UNCHANGED <<config, wg, cacheVars, consumerVars, stdout, mainPc,
                   delivered, fetchHistory>>

\* go Crawl(wg, u, depth-1, fetcher, output), then the loop head
\* (main.go:32, 30)
CrawlGo(t) ==
    /\ Running
    /\ tasks[t].pc = "go"
    /\ LET i == tasks[t].i
           child == Append(t, i) IN
       tasks' = (child :> NewTask(tasks[t].urls[i], tasks[t].depth - 1)) @@
                Set(t, [pc |-> IF i < Len(tasks[t].urls) THEN "add" ELSE "ret",
                        i |-> i + 1])
    /\ UNCHANGED <<config, wg, cacheVars, consumerVars, stdout, mainPc,
                   delivered, fetchHistory>>

\* The return calling wg.Done() twice (a deferred and an explicit Done).
CrawlReturn_DoubleDone(t) ==
    /\ Running
    /\ tasks[t].pc = "ret"
    /\ wg' = wg - 2
    /\ tasks' = Set(t, [pc |-> "done"])
    /\ UNCHANGED <<config, cacheVars, consumerVars, stdout, mainPc, delivered,
                   fetchHistory>>

\* return: the deferred wg.Done() (main.go:17, 26, 34)
CrawlReturn(t) ==
    /\ Running
    /\ tasks[t].pc = "ret"
    /\ wg' = wg - 1
    /\ tasks' = Set(t, [pc |-> "done"])
    /\ UNCHANGED <<config, cacheVars, consumerVars, stdout, mainPc, delivered,
                   fetchHistory>>

\* fmt.Printf("%s\n", message) in the consumer goroutine (main.go:46)
ConsumerPrint ==
    /\ Running
    /\ consumerPc = "print"
    /\ stdout' = Append(stdout, message[1])
    /\ consumerPc' = "recv"
    /\ message' = <<>>
    /\ UNCHANGED <<config, tasks, wg, cacheVars, mainPc, delivered, fetchHistory>>

\* wg.Wait() returns and main returns: the process exits (main.go:50-51)
MainWait ==
    /\ Running
    /\ wg = 0
    /\ mainPc' = "exited"
    /\ UNCHANGED <<config, tasks, wg, cacheVars, consumerVars, stdout,
                   delivered, fetchHistory>>

Next ==
    \/ \E t \in DOMAIN tasks : CrawlEnter(t)
    \/ \E t \in DOMAIN tasks : FetchLock(t)
    \/ \E t \in DOMAIN tasks : FetchLookup(t)
    \/ \E t \in DOMAIN tasks : FetchUnderlying(t)
    \/ \E t \in DOMAIN tasks : FetchLockStore(t)
    \/ \E t \in DOMAIN tasks : FetchStore(t)
    \/ \E t \in DOMAIN tasks : CrawlSendError(t)
    \/ \E t \in DOMAIN tasks : CrawlSendFound(t)
    \/ \E t \in DOMAIN tasks : CrawlAdd(t)
    \/ \E t \in DOMAIN tasks : CrawlGo(t)
    \/ \E t \in DOMAIN tasks : CrawlReturn(t)
    \/ ConsumerPrint
    \/ MainWait

Spec == Init /\ [][Next]_vars

\* The Go scheduler runs every runnable goroutine eventually: some Crawl
\* goroutine that can take a step takes one, the consumer prints the message
\* it holds, and main leaves wg.Wait once the counter is zero.
CrawlStep ==
    \E t \in DOMAIN tasks :
        \/ CrawlEnter(t) \/ FetchLock(t) \/ FetchLookup(t) \/ FetchUnderlying(t)
        \/ FetchLockStore(t) \/ FetchStore(t) \/ CrawlSendError(t)
        \/ CrawlSendFound(t) \/ CrawlAdd(t) \/ CrawlGo(t) \/ CrawlReturn(t)

FairSpec ==
    Spec /\ WF_vars(CrawlStep) /\ WF_vars(ConsumerPrint) /\ WF_vars(MainWait)

(***************************************************************************)
(* Claims                                                                  *)
(***************************************************************************)
AllDone == \A t \in DOMAIN tasks : tasks[t].pc = "done"
Exited == mainPc = "exited"
InFetch(t) == tasks[t].pc \in {"lock1", "lookup", "under", "lock2", "store"}
\* Positions after CacheFetcher.Fetch has returned to Crawl
AfterFetch(t) == tasks[t].pc \in {"fetched", "add", "go", "ret"}
                 \/ (tasks[t].pc = "done" /\ tasks[t].depth > 0)
\* Sum of f[u] over the urls u of S
RECURSIVE SumOver(_, _)
SumOver(f, S) ==
    IF S = {} THEN 0
    ELSE LET u == CHOOSE x \in S : TRUE IN f[u] + SumOver(f, S \ {u})

\* C1: under fair scheduling of the Crawl goroutines, the consumer and
\* main, every crawl (cyclic graphs included, every start url, every depth)
\* terminates: main eventually leaves wg.Wait; and the Crawl goroutines ever
\* spawned never number more than the depth-bounded spawn tree has nodes.
C1_Terminates ==
    /\ <>Exited
    /\ [](Cardinality(DOMAIN tasks) <= TreeSize(fetcher, startUrl, startDepth))
C1_Witness ==
    /\ Exited
    /\ fetcher = CycleGraph
    /\ startDepth = MaxDepth
    /\ Cardinality(DOMAIN tasks) = MaxDepth + 1

\* C2: the WaitGroup counter reads zero, and main has left wg.Wait, only
\* when every Crawl goroutine ever registered has completed: none is
\* running, waiting to start, or about to register or spawn a child.
C2_DoneOnlyWhenFinished ==
    /\ (wg = 0 \/ Exited) => AllDone
    /\ AllDone => wg = 0
C2_Witness == Exited /\ Cardinality(DOMAIN tasks) >= 4

\* C3 (as claimed): the underlying Fetch is called at most once for every
\* url that it can retrieve, and at most one cache write per key is in
\* flight or completed.
C3_AtMostOnce ==
    \A u \in DOMAIN fetcher :
        /\ underCalls[u] <= 1
        /\ cacheWrites[u]
             + Cardinality({t \in DOMAIN tasks :
                              tasks[t].url = u /\ tasks[t].pc \in {"lock2", "store"}})
           <= 1

\* C4: a CacheFetcher.Fetch(k) call that starts after a Fetch(k) call has
\* returned successfully never calls the underlying Fetch, and returns the
\* cached body and urls with a nil error.
C4_LaterCallsServedFromCache ==
    \A t \in DOMAIN tasks :
        tasks[t].late =>
            /\ tasks[t].pc \notin {"under", "lock2", "store"}
            /\ AfterFetch(t) =>
                  /\ tasks[t].hit
                  /\ tasks[t].err = NoErr
                  /\ tasks[t].url \in DOMAIN items
                  /\ tasks[t].body = items[tasks[t].url].body
                  /\ tasks[t].urls = items[tasks[t].url].urls
C4_Witness ==
    \E t \in DOMAIN tasks :
        tasks[t].late /\ tasks[t].hit /\ tasks[t].pc = "done"

\* C5: a Crawl with depth <= 0 never enters CacheFetcher.Fetch, sends no
\* message and spawns no child; a crawl that main starts with depth <= 0
\* makes no wrapper or underlying call, sends nothing, consists of the root
\* alone, and the root's return brings the counter to zero.
C5_DepthExhausted ==
    /\ \A t \in DOMAIN tasks :
          tasks[t].depth <= 0 =>
              /\ tasks[t].pc \in {"start", "done"}
              /\ \A k \in 1 .. Len(delivered) : delivered[k].from # t
              /\ Append(t, 1) \notin DOMAIN tasks
    /\ startDepth <= 0 =>
          /\ \A u \in Urls : fetchCalls[u] = 0 /\ underCalls[u] = 0
          /\ delivered = <<>> /\ stdout = <<>>
          /\ DOMAIN tasks = {Root}
          /\ tasks[Root].pc = "done" <=> wg = 0
C5_Witness ==
    /\ startDepth = 0
    /\ Exited

\* Number of entries of delivered sent by goroutine t
MessagesFrom(t) ==
    Cardinality({k \in 1 .. Len(delivered) : delivered[k].from = t})

\* Number of nodes with depth > 0 in the depth-bounded unfolding of graph f
\* from url; a url that is not found is a leaf.
RECURSIVE Attempts(_, _, _)
Attempts(f, url, depth) ==
    IF depth <= 0 THEN 0
    ELSE IF url \notin DOMAIN f THEN 1
    ELSE 1 + SumTo([k \in 1 .. Len(f[url].urls) |->
                      Attempts(f, f[url].urls[k], depth - 1)],
                   Len(f[url].urls))

\* C6: when the crawl has finished, the number of messages sent on output
\* equals the number of CacheFetcher.Fetch calls and equals the number of
\* nodes with depth > 0 of the depth-bounded unfolding; every Crawl with
\* depth > 0 has sent exactly one message and every other none.
C6_OneMessagePerAttempt ==
    wg = 0 =>
        /\ Len(delivered) = SumOver(fetchCalls, Urls)
        /\ Len(delivered) = Attempts(fetcher, startUrl, startDepth)
        /\ \A t \in DOMAIN tasks :
              MessagesFrom(t) = IF tasks[t].depth > 0 THEN 1 ELSE 0
C6_Witness ==
    /\ wg = 0
    /\ Len(delivered) >= 3
    /\ \E t \in DOMAIN tasks : tasks[t].hit
    /\ \E t \in DOMAIN tasks : tasks[t].depth > 0 /\ ~tasks[t].hit

\* Urls whose fetch succeeds in the depth-bounded unfolding of graph f from
\* url: reached within the depth bound along found urls only.
RECURSIVE ReachOk(_, _, _)
ReachOk(f, url, depth) ==
    IF depth <= 0 \/ url \notin DOMAIN f THEN {}
    ELSE {url} \cup UNION {ReachOk(f, f[url].urls[k], depth - 1) :
                             k \in 1 .. Len(f[url].urls)}

Failed(t) == tasks[t].err # NoErr /\ tasks[t].pc \in {"ret", "done"}

\* C7: a Crawl whose fetch failed sends exactly one message, the error
\* text, and spawns no child; the crawl still terminates, and once it is
\* over a found message has been sent for every url reachable from the start
\* within the depth bound along urls that are found.
C7_FailureIsLocal ==
    /\ <>Exited
    /\ [](\A t \in DOMAIN tasks :
            Failed(t) =>
                /\ MessagesFrom(t) = 1
                /\ \E k \in 1 .. Len(delivered) :
                      delivered[k] = [from |-> t, text |-> NotFound(tasks[t].url)]
                /\ Append(t, 1) \notin DOMAIN tasks)
    /\ []((wg = 0 \/ Exited) =>
            \A u \in ReachOk(fetcher, startUrl, startDepth) :
                \E k \in 1 .. Len(delivered) :
                    delivered[k].text = FoundMessage(u, fetcher[u].body))
C7_Witness ==
    /\ Exited
    /\ \E t \in DOMAIN tasks : Failed(t)
    /\ \E k \in 1 .. Len(delivered) :
          /\ delivered[k].text = FoundMessage("B", "body B")
          /\ \E j \in 1 .. k - 1 : delivered[j].text = NotFound("C")

IsFixture == fetcher = FixtureGraph /\ startUrl = "A" /\ startDepth = 2

\* C8: with A -> [B, C], B -> [A, C], C -> [A], start A and depth 2: the
\* found message of A is sent before Fetch is called for B or C, the
\* underlying Fetch is called for B exactly once and for C exactly once, the
\* counter reaches zero and main returns, and between 3 and 5 messages are
\* sent in all.
C8_Fixture ==
    /\ IsFixture => <>(wg = 0 /\ Exited)
    /\ [](IsFixture =>
            /\ fetchCalls["B"] + fetchCalls["C"] > 0 =>
                  /\ Len(delivered) >= 1
                  /\ delivered[1] = [from |-> Root,
                                     text |-> FoundMessage("A", "body A")]
            /\ underCalls["B"] <= 1
            /\ underCalls["C"] <= 1
            /\ Len(delivered) <= 5
            /\ wg = 0 =>
                  /\ underCalls["B"] = 1
                  /\ underCalls["C"] = 1
                  /\ Len(delivered) >= 3)
C8_Witness ==
    /\ IsFixture
    /\ Exited
    /\ underCalls["B"] = 1
    /\ underCalls["C"] = 1
    /\ Len(delivered) = 3

\* C9: when the underlying Fetch fails for url k, CacheFetcher.Fetch returns
\* that error and leaves items as it was: k never gets an entry, and every
\* Fetch(k) call misses and calls the underlying Fetch again.
C9_FailureNotCached ==
    /\ [](\A u \in Urls \ DOMAIN fetcher :
            /\ u \notin DOMAIN items
            /\ cacheWrites[u] = 0
            /\ underCalls[u] + Cardinality({t \in DOMAIN tasks :
                    tasks[t].url = u /\ tasks[t].pc \in {"lock1", "lookup", "under"}})
               = fetchCalls[u])
    /\ [](\A t \in DOMAIN tasks :
            (AfterFetch(t) /\ tasks[t].url \notin DOMAIN fetcher) =>
                tasks[t].err = NotFound(tasks[t].url) /\ ~tasks[t].hit)
    /\ [][\A t \in DOMAIN tasks :
            (tasks[t].pc = "under" /\ tasks'[t].err # NoErr) =>
                tasks'[t].pc = "fetched" /\ items' = items]_vars
C9_Witness ==
    /\ underCalls["C"] = 2
    /\ "C" \notin DOMAIN items
    /\ \A t \in DOMAIN tasks : tasks[t].url = "C" => tasks[t].pc = "done"

Printed == SelectSeq(stdout, LAMBDA line : line[1] # "hit from cache: ")

Parent(t) == SubSeq(t, 1, Len(t) - 1)
Sent(t) == MessagesFrom(t) >= 1
IndexOf(t) == CHOOSE k \in 1 .. Len(delivered) : delivered[k].from = t

\* C11: a Crawl goroutine has sent its own message before it registers or
\* spawns any child; so the message of a parent is sent before the message
\* of each of its children.
C11_MessageBeforeChildren ==
    /\ \A t \in DOMAIN tasks :
          (tasks[t].pc \in {"add", "go"} \/ Append(t, 1) \in DOMAIN tasks) =>
              /\ MessagesFrom(t) = 1
              /\ delivered[IndexOf(t)].text =
                     FoundMessage(tasks[t].url, tasks[t].body)
    /\ \A t \in DOMAIN tasks \ {Root} :
          Sent(t) => Sent(Parent(t)) /\ IndexOf(Parent(t)) < IndexOf(t)
C11_Witness ==
    \E t \in DOMAIN tasks \ {Root} :
        /\ Sent(t)
        /\ IndexOf(Parent(t)) < IndexOf(t)
        /\ \E s \in DOMAIN tasks : tasks[s].pc = "go" /\ MessagesFrom(s) = 1

\* C12: the underlying Fetch is called with url k only by a
\* CacheFetcher.Fetch(k) call in progress: a step that calls it for k is a
\* step of a goroutine inside Fetch(k); it is never called for a url that
\* was not passed to the wrapper, nor more often than the wrapper was.
C12_NoSpeculativeFetch ==
    /\ [](\A u \in Urls :
            /\ underCalls[u] <= fetchCalls[u]
            /\ fetchCalls[u] = 0 => underCalls[u] = 0)
    /\ [][\A u \in Urls :
            underCalls'[u] # underCalls[u] =>
                /\ underCalls'[u] = underCalls[u] + 1
                /\ \E t \in DOMAIN tasks :
                      /\ tasks[t].url = u
                      /\ tasks[t].pc = "under"
                      /\ tasks'[t].pc \in {"lock2", "fetched"}]_vars
C12_Witness ==
    /\ Exited
    /\ fetcher = FixtureGraph
    /\ startUrl = "C"
    /\ startDepth = 1
    /\ underCalls = [u \in Urls |-> IF u = "C" THEN 1 ELSE 0]

\* Crawl invocations registered with the WaitGroup and not yet completed:
\* the goroutines that have not run their deferred Done, and the children
\* for which wg.Add(1) has run and the go statement has not.
Outstanding ==
    Cardinality({t \in DOMAIN tasks : tasks[t].pc # "done"})
    + Cardinality({t \in DOMAIN tasks : tasks[t].pc = "go"})

\* C13: the WaitGroup counter always equals the number of Crawl invocations
\* registered and not yet completed and is never negative; it changes by
\* one at a time, an increment happens only while the counter is >= 1 and
\* in the parent before the child exists, and a decrement is the return of
\* one goroutine.
C13_CounterIsOutstandingWork ==
    /\ [](wg = Outstanding /\ wg >= 0)
    /\ [][/\ wg' > wg =>
              /\ wg' = wg + 1
              /\ wg >= 1
              /\ \E t \in DOMAIN tasks :
                    /\ tasks[t].pc = "add"
                    /\ tasks'[t].pc = "go"
                    /\ Append(t, tasks[t].i) \notin DOMAIN tasks'
          /\ wg' < wg =>
              /\ wg' = wg - 1
              /\ \E t \in DOMAIN tasks :
                    tasks[t].pc # "done" /\ tasks'[t].pc = "done"]_vars
C13_Witness ==
    /\ wg = 2
    /\ \E t \in DOMAIN tasks : tasks[t].pc = "go"
    /\ \E t \in DOMAIN tasks : tasks[t].pc = "done" /\ tasks[t].err # NoErr

\* C14 (as claimed): once url k has an entry in items, the entry stays, its
\* body and urls never change, and items[k] is never assigned again.
C14_WrittenOnce ==
    [][\A u \in DOMAIN items :
          /\ u \in DOMAIN items'
          /\ items'[u] = items[u]
          /\ cacheWrites'[u] = cacheWrites[u]]_vars

\* C15: the mutex has at most one holder; a goroutine reads or writes items
\* only in a step in which it holds the mutex; and the holder is inside
\* one of the two critical sections of CacheFetcher.Fetch, never at the
\* underlying call or at a send on output.
C15_CacheUnderMutex ==
    /\ [](/\ Cardinality(mux) <= 1
          /\ mux \subseteq DOMAIN tasks
          /\ \A t \in DOMAIN tasks :
                t \in mux <=> tasks[t].pc \in {"lookup", "store"})
    /\ [][/\ items' # items =>
              \E t \in DOMAIN tasks :
                  mux = {t} /\ tasks[t].pc = "store" /\ tasks'[t].pc = "fetched"
          /\ mux' # mux =>
              \E t \in DOMAIN tasks :
                  \/ /\ tasks[t].pc \in {"lock1", "lock2"}
                     /\ mux = {} /\ mux' = {t}
                  \/ /\ tasks[t].pc \in {"lookup", "store"}
                     /\ mux = {t} /\ mux' = {}]_vars
C15_Witness ==
    \E t, s \in DOMAIN tasks :
        /\ mux = {t}
        /\ tasks[t].pc = "store"
        /\ tasks[s].pc = "under"
        /\ consumerPc = "print"

\* Urls within at most hops link hops of url in graph f
RECURSIVE ReachWithin(_, _, _)
ReachWithin(f, url, hops) ==
    IF hops < 0 THEN {}
    ELSE {url} \cup
         (IF url \in DOMAIN f
          THEN UNION {ReachWithin(f, f[url].urls[k], hops - 1) :
                        k \in 1 .. Len(f[url].urls)}
          ELSE {})

Children(t) == {k \in 1 .. MaxTasks : Append(t, k) \in DOMAIN tasks}

\* C16: every child runs with its parent's depth minus 1 on the url of its
\* entry of the parent's fetched urls, one child per entry; only goroutines
\* with depth >= 1 enter Fetch; so the wrapper is called only with urls
\* within startDepth-1 hops of the start and no goroutine is deeper in the
\* spawn tree than the start depth.
C16_DepthBound ==
    /\ \A t \in DOMAIN tasks \ {Root} :
          /\ Parent(t) \in DOMAIN tasks
          /\ tasks[t].depth = tasks[Parent(t)].depth - 1
          /\ tasks[t].url = tasks[Parent(t)].urls[t[Len(t)]]
          /\ tasks[t].depth = startDepth - Len(t)
          /\ Len(t) <= startDepth
    /\ \A t \in DOMAIN tasks :
          /\ (InFetch(t) \/ AfterFetch(t)) => tasks[t].depth >= 1
          /\ tasks[t].pc \in {"add", "go"} =>
                Children(t) = 1 .. (tasks[t].i - 1)
          /\ tasks[t].pc \in {"ret", "done"} =>
                Children(t) = 1 .. Len(tasks[t].urls)
          /\ AfterFetch(t) /\ tasks[t].err = NoErr =>
                tasks[t].urls = fetcher[tasks[t].url].urls
    /\ \A u \in Urls :
          fetchCalls[u] > 0 => u \in ReachWithin(fetcher, startUrl, startDepth - 1)
C16_Witness ==
    /\ fetcher = TwinGraph
    /\ startUrl = "A"
    /\ startDepth = MaxDepth
    /\ Exited
    /\ Children(Root) = {1, 2}
    /\ tasks[<<1>>].depth = MaxDepth - 1
    /\ tasks[<<2>>].url = "B"

\* The k-th message sent has been printed by the consumer, or is the one
\* the consumer has received and not yet printed.
PrintedAt(k) == k <= Len(Printed) /\ Printed[k] = delivered[k].text
Held(k) == k = Len(delivered) /\ message = <<delivered[k].text>>

\* C17 (as claimed): when main has returned from wg.Wait and the process
\* exits, every message sent by a Crawl goroutine has been printed.
C17_NoMessageLost ==
    Exited => \A k \in 1 .. Len(delivered) : PrintedAt(k)

\* C18: whatever CacheFetcher.Fetch(k) returns, from the cache or from the
\* underlying call, is the body, urls and error of the underlying Fetch(k);
\* and every entry of items is the successful underlying result of its key.
C18_WrapperTransparent ==
    /\ \A t \in DOMAIN tasks :
          AfterFetch(t) =>
              [body |-> tasks[t].body, urls |-> tasks[t].urls,
               err |-> tasks[t].err] = fakeFetch(fetcher, tasks[t].url)
    /\ \A u \in DOMAIN items :
          /\ fakeFetch(fetcher, u).err = NoErr
          /\ items[u] = fakeResult(fakeFetch(fetcher, u).body,
                                   fakeFetch(fetcher, u).urls)
C18_Witness ==
    /\ Exited
    /\ \E t \in DOMAIN tasks : tasks[t].hit /\ Len(tasks[t].urls) >= 1
    /\ \E t \in DOMAIN tasks : tasks[t].depth > 0 /\ ~tasks[t].hit

Ancestor(s, t) == Len(s) < Len(t) /\ SubSeq(t, 1, Len(s)) = s

\* C19: a goroutine that registers or spawns a child has had its message
\* received by the consumer; the consumer receives, and prints, the message
\* of every goroutine before the messages of all of its descendants.
C19_ReceivedBeforeDescendants ==
    /\ \A t \in DOMAIN tasks :
          (tasks[t].pc \in {"add", "go"} \/ Children(t) # {}) =>
              /\ Sent(t)
              /\ PrintedAt(IndexOf(t)) \/ Held(IndexOf(t))
    /\ \A s, t \in DOMAIN tasks :
          (Ancestor(s, t) /\ Sent(t)) =>
              /\ Sent(s)
              /\ IndexOf(s) < IndexOf(t)
              /\ PrintedAt(IndexOf(t)) => PrintedAt(IndexOf(s))
    /\ \A k \in 1 .. Len(Printed) : PrintedAt(k)
C19_Witness ==
    \E s, t \in DOMAIN tasks :
        /\ Ancestor(s, t)
        /\ Len(t) = Len(s) + 2
        /\ Sent(t)
        /\ PrintedAt(IndexOf(t))
        /\ PrintedAt(IndexOf(s))
====
